---- MODULE Spec2Model ----
(***************************************************************************)
(* Arcamage backend: the OpenAI-compatible supplier proxy.                 *)
(*   backend/app/core/supplier_proxy.py  _normalize_base_url, fetch_models *)
(*   backend/app/api/proxy.py            proxy_chat, _request_chat,        *)
(*                                       _stream_chat, _map_error_code,    *)
(*                                       _format_error_event               *)
(* Text (URLs, credentials, messages, bodies, the caller's byte stream) is *)
(* a sequence of string tokens; a token stands for one or more characters. *)
(***************************************************************************)
EXTENDS Integers, Sequences, FiniteSets, TLC

(* ------------------------------ bounds -------------------------------- *)
MaxChunks == 2
MaxChunkLen == 1
MaxData == 3
MaxSlashes == 3
MaxCalls == 4
NumIds == 2

(* ------------------------------ text ---------------------------------- *)
LF == "\n"
SP == " "
BadByte == "<0xff>"
ReplacementChar == "<U+FFFD>"
Whitespace == {SP, LF}

RECURSIVE LStrip(_, _)
LStrip(s, chars) ==
  IF s # <<>> /\ s[1] \in chars THEN LStrip(Tail(s), chars) ELSE s

RECURSIVE RStrip(_, _)
RStrip(s, chars) ==
  IF s # <<>> /\ s[Len(s)] \in chars
    THEN RStrip(SubSeq(s, 1, Len(s) - 1), chars)
    ELSE s

\* str.strip(): leading and trailing whitespace removed
Strip(s) == RStrip(LStrip(s, Whitespace), Whitespace)

RECURSIVE Flatten(_)
Flatten(ss) == IF ss = <<>> THEN <<>> ELSE Head(ss) \o Flatten(Tail(ss))

IsPrefix(p, s) == Len(p) <= Len(s) /\ SubSeq(s, 1, Len(p)) = p

\* index of the first occurrence of tok in s at or after i, Len(s) + 1 if none
RECURSIVE Find(_, _, _)
Find(s, tok, i) ==
  IF i > Len(s) THEN Len(s) + 1
  ELSE IF s[i] = tok THEN i
  ELSE Find(s, tok, i + 1)

(* ------------------------------ URLs ---------------------------------- *)
SchemeParts == {<<>>, <<"https", ":">>}
SlashParts == {<<>>, <<"//">>}
HostParts ==
  {<<>>, <<"localhost">>, <<"LocalHost">>, <<"127.0.0.1">>,
   <<"[", "::1", "]">>, <<"api.example.com">>}
PortParts == {<<>>, <<":", "8080">>}
TailParts == {<<>>, <<"/", "v1", "/", "/">>}

BaseUrls ==
  {<<>>, <<SP>>, <<SP, SP>>} \cup
  {s \o sl \o h \o p \o t :
     s \in SchemeParts, sl \in SlashParts, h \in HostParts,
     p \in PortParts, t \in TailParts}

ApiKeys == {<<>>, <<SP>>, <<SP, LF>>, <<"sk-key">>}

\* tokens made of letters, digits, "+", "-", "." only, starting with a letter
SchemeLike == {"https", "localhost", "LocalHost", "api.example.com"}

Lower(tok) == IF tok = "LocalHost" THEN "localhost" ELSE tok

None == "<None>"

\* urllib.parse.urlparse: scheme, netloc and the hostname property
UrlScheme(u) ==
  IF Len(u) >= 2 /\ u[1] \in SchemeLike /\ u[2] = ":" THEN Lower(u[1]) ELSE ""

UrlRest(u) == IF UrlScheme(u) # "" THEN SubSeq(u, 3, Len(u)) ELSE u

UrlNetloc(u) ==
  LET rest == UrlRest(u) IN
  IF rest # <<>> /\ rest[1] = "//"
    THEN SubSeq(rest, 2, Find(rest, "/", 2) - 1)
    ELSE <<>>

UrlHostname(u) ==
  LET netloc == UrlNetloc(u) IN
  IF netloc = <<>> THEN None
  ELSE IF netloc[1] = "["
    THEN IF Len(netloc) >= 3 /\ netloc[3] = "]" THEN Lower(netloc[2]) ELSE None
  ELSE IF netloc[1] = ":" THEN None
  ELSE Lower(netloc[1])

LoopbackHosts == {"localhost", "127.0.0.1", "::1"}

\* _normalize_base_url: [ok |-> FALSE] stands for raise ValidationError
Rejected == [ok |-> FALSE, url |-> <<>>]
Accepted(u) == [ok |-> TRUE, url |-> u]

\* the normalizer taking one trailing slash off instead of all of them
_normalize_base_url_one_slash(base_url) ==
  IF base_url = <<>> \/ Strip(base_url) = <<>> THEN Rejected
  ELSE IF UrlScheme(base_url) = "" \/ UrlNetloc(base_url) = <<>> THEN Rejected
  ELSE LET host == IF UrlHostname(base_url) = None THEN "" ELSE UrlHostname(base_url) IN
       IF Lower(host) \in LoopbackHosts THEN Rejected
       ELSE Accepted(IF base_url[Len(base_url)] = "/"
                       THEN SubSeq(base_url, 1, Len(base_url) - 1) ELSE base_url)

_normalize_base_url(base_url) ==
  IF base_url = <<>> \/ Strip(base_url) = <<>> THEN Rejected
  ELSE IF UrlScheme(base_url) = "" \/ UrlNetloc(base_url) = <<>> THEN Rejected
  ELSE LET host == IF UrlHostname(base_url) = None THEN "" ELSE UrlHostname(base_url) IN
       IF Lower(host) \in LoopbackHosts THEN Rejected
       ELSE Accepted(RStrip(base_url, {"/"}))

(* ------------------------------ JSON ---------------------------------- *)
\* a field of a JSON object: absent, or a value of some JSON type
Absent == [t |-> "absent", s |-> <<>>]
JStr(s) == [t |-> "str", s |-> s]
JNull == [t |-> "null", s |-> <<>>]
JNum == [t |-> "num", s |-> <<"42">>]

MessageFields ==
  {Absent, JNull, JNum, JStr(<<>>), JStr(<<"quota", LF, "exceeded">>)}
TopMessageFields == {Absent, JNull, JStr(<<"top", "\"", "msg">>)}

\* the "error" field of a body: absent, an object with a "message" field, or
\* a value of another JSON type
NoError == [t |-> "absent", s |-> <<>>, message |-> Absent]
ErrorObj(m) == [t |-> "obj", s |-> <<>>, message |-> m]
ErrorFields ==
  {NoError} \cup {ErrorObj(m) : m \in MessageFields} \cup
  {[t |-> "str", s |-> <<"bad key">>, message |-> Absent],
   [t |-> "null", s |-> <<>>, message |-> Absent],
   [t |-> "list", s |-> <<>>, message |-> Absent]}

JObj(e, m) == [t |-> "obj", error |-> e, message |-> m]
JList == [t |-> "list", error |-> NoError, message |-> Absent]
JNone == [t |-> "none", error |-> NoError, message |-> Absent]

\* an upstream response body: the raw bytes, and what json.loads makes of them
EmptyBody == [kind |-> "empty", text |-> <<>>, json |-> JNone]
TextBody(s) == [kind |-> "text", text |-> s, json |-> JNone]
JsonBody(v) == [kind |-> "json", text |-> <<>>, json |-> v]

\* a character outside ASCII, and a backslash
NonAscii == "<U+00E9>"
Backslash == "\\"
TextBodies ==
  {TextBody(<<SP>>), TextBody(<<SP, "Bad Gateway", LF>>),
   TextBody(<<"oops", BadByte>>), TextBody(<<"caf", NonAscii, Backslash, "n">>)}
JsonBodies ==
  {JsonBody(JList)} \cup
  {JsonBody(JObj(e, m)) : e \in ErrorFields, m \in TopMessageFields}
Bodies == {EmptyBody} \cup TextBodies \cup JsonBodies

\* bytes.decode("utf-8") raises UnicodeDecodeError (a ValueError) on a bad byte
DecodeFails(body) ==
  body.kind = "text" /\ \E i \in 1..Len(body.text) : body.text[i] = BadByte

\* bytes.decode("utf-8", errors="ignore")
DecodeIgnore(s) == SelectSeq(s, LAMBDA b : b # BadByte)

\* httpx Response.text: decoded with errors="replace"
ResponseText(s) == [i \in 1..Len(s) |-> IF s[i] = BadByte THEN ReplacementChar ELSE s[i]]

\* json.loads: a ValueError unless the text is a JSON document
JsonLoadsFails(body) == body.kind # "json"

(* ------------------- error translation (api/proxy.py) ----------------- *)
\* the table without its case for 400
_map_error_code_no_400(status_code) ==
  IF status_code = 401 THEN "UNAUTHORIZED"
  ELSE IF status_code = 429 THEN "RATE_LIMITED"
  ELSE "UPSTREAM_ERROR"

_map_error_code(status_code) ==
  IF status_code = 401 THEN "UNAUTHORIZED"
  ELSE IF status_code = 429 THEN "RATE_LIMITED"
  ELSE IF status_code = 400 THEN "VALIDATION_ERROR"
  ELSE "UPSTREAM_ERROR"

\* f"Upstream error ({response.status_code})"
DefaultMessage(status_code) ==
  JStr(<<"Upstream error (", ToString(status_code), ")">>)

\* parsed.get("error", {}).get("message", parsed.get("message", message)):
\* .get on a value that is not a dict raises AttributeError
ExtractRaises(parsed) == parsed.error.t \notin {"absent", "obj"}

ExtractMessage(parsed, message) ==
  LET inner == IF parsed.error.t = "obj" THEN parsed.error.message ELSE Absent
      top == IF parsed.message.t = "absent" THEN message ELSE parsed.message
  IN IF inner.t # "absent" THEN inner ELSE top

\* the message computation of _stream_chat: [raised, message]
StreamErrorMessage(status_code, body) ==
  LET message == DefaultMessage(status_code) IN
  IF body.kind = "empty" THEN [raised |-> FALSE, message |-> message]
  ELSE IF DecodeFails(body) \/ JsonLoadsFails(body)
    THEN LET text == Strip(DecodeIgnore(body.text)) IN
         [raised |-> FALSE,
          message |-> IF text # <<>> THEN JStr(text) ELSE message]
  ELSE IF body.json.t # "obj" THEN [raised |-> FALSE, message |-> message]
  ELSE IF ExtractRaises(body.json) THEN [raised |-> TRUE, message |-> message]
  ELSE [raised |-> FALSE, message |-> ExtractMessage(body.json, message)]

\* the message computation of _request_chat: [raised, message]
BufferedErrorMessage(status_code, body) ==
  LET message == DefaultMessage(status_code) IN
  IF body.kind = "empty" THEN [raised |-> FALSE, message |-> message]
  ELSE IF JsonLoadsFails(body)
    THEN LET text == Strip(ResponseText(body.text)) IN
         [raised |-> FALSE,
          message |-> IF text # <<>> THEN JStr(text) ELSE message]
  ELSE IF body.json.t # "obj" THEN [raised |-> FALSE, message |-> message]
  ELSE IF ExtractRaises(body.json) THEN [raised |-> TRUE, message |-> message]
  ELSE [raised |-> FALSE, message |-> ExtractMessage(body.json, message)]

(* ------------------------- SSE error framer --------------------------- *)
\* json.dumps of a string with nothing escaped
EscapeNothing(c) == c

\* json.dumps(..., ensure_ascii=False) of a string: quotes, backslash escapes
EscapeToken(c) ==
  IF c = LF THEN "\\n"
  ELSE IF c = "\"" THEN "\\\""
  ELSE IF c = Backslash THEN "\\\\"
  ELSE c

JsonDumps(v) ==
  IF v.t = "str"
    THEN <<"\"">> \o [i \in 1..Len(v.s) |-> EscapeToken(v.s[i])] \o <<"\"">>
  ELSE IF v.t = "null" THEN <<"null">>
  ELSE v.s

_format_error_event(code, message) ==
  <<"event: error", LF, "data: ", "{", "\"code\": ">> \o JsonDumps(JStr(<<code>>)) \o
  <<", ", "\"message\": ">> \o JsonDumps(message) \o <<"}", LF, LF>>

TimeoutMessage == JStr(<<"Request timed out">>)
NetworkMessage == JStr(<<"Network request failed">>)

(* --------------------------- the requests ----------------------------- *)
\* SupplierChatRequest / SupplierModelsRequest, as far as the relay reads them
\* a field left at its default None
PyNone == <<"<None>">>
\* the optional fields, unset or set to a value that is falsy in Python
Temperatures == {PyNone, <<"0.0">>}
ToolLists == {PyNone, <<>>}
ToolChoices == {PyNone, <<"auto">>}
MessageLists == {<<"m-system", "m-user", "m-assistant">>}

ChatPayloads ==
  [op : {"chat"}, base_url : BaseUrls, api_key : ApiKeys, stream : BOOLEAN,
   model : {<<"gpt-a">>}, messages : MessageLists, temperature : Temperatures,
   tools : ToolLists, tool_choice : ToolChoices]
ModelsPayloads ==
  [op : {"models"}, base_url : BaseUrls, api_key : ApiKeys, stream : {FALSE},
   model : {PyNone}, messages : {<<>>}, temperature : {PyNone},
   tools : {PyNone}, tool_choice : {PyNone}]
NoPayload ==
  [op |-> "none", base_url |-> <<>>, api_key |-> <<>>, stream |-> FALSE,
   model |-> PyNone, messages |-> <<>>, temperature |-> PyNone,
   tools |-> PyNone, tool_choice |-> PyNone]

Statuses == {200, 400, 401, 403, 429, 500}

\* what the upstream does with one request or one read
TimeoutOutcome == [kind |-> "timeout", status |-> 0, body |-> EmptyBody]
NetworkOutcome == [kind |-> "network", status |-> 0, body |-> EmptyBody]
ResponseOutcome(st, b) == [kind |-> "response", status |-> st, body |-> b]
TransportFailures == {TimeoutOutcome, NetworkOutcome}
HeaderOutcomes ==
  TransportFailures \cup {ResponseOutcome(st, EmptyBody) : st \in Statuses}
BodyOutcomes ==
  TransportFailures \cup {ResponseOutcome(0, b) : b \in Bodies}
\* _request_chat passes the status through, so it is given a second status
\* below 400; _stream_chat only tests status >= 400
BufferedStatuses == Statuses \cup {204}
BufferedOutcomes ==
  TransportFailures \cup
  {ResponseOutcome(st, b) : st \in BufferedStatuses, b \in Bodies}

\* the elements of "data" in a /v1/models body: a JSON object with or without
\* an "id", or a value that is not an object
IdFields ==
  {Absent, JNull, JStr(<<>>), JStr(<<"gpt-a">>), JStr(<<"gpt-b">>),
   [t |-> "num", s |-> <<"0">>], [t |-> "num", s |-> <<"7">>]}
DataItems ==
  {[t |-> "dict", id |-> f] : f \in IdFields} \cup {[t |-> "str", id |-> Absent]}
DataLists == UNION {[1..n -> DataItems] : n \in 0..MaxData}

\* a /v1/models body: not JSON, a JSON value that is not an object, or an
\* object whose "data" is absent, not an array, or an array
ModelsBody(kind, data, items) == [kind |-> kind, data |-> data, items |-> items]
ModelsBodies ==
  {ModelsBody("text", "absent", <<>>), ModelsBody("json_list", "absent", <<>>),
   ModelsBody("json_obj", "absent", <<>>), ModelsBody("json_obj", "str", <<>>)} \cup
  {ModelsBody("json_obj", "list", items) : items \in DataLists}
ModelsOutcome(kind, st, b) == [kind |-> kind, status |-> st, body |-> b]
\* fetch_models reads the body of a response only when its status is < 400
ErrorStatuses == {st \in Statuses : st >= 400}
ModelsOutcomes ==
  {ModelsOutcome(k, 0, ModelsBody("text", "absent", <<>>)) : k \in {"timeout", "network"}} \cup
  {ModelsOutcome("response", st, ModelsBody("text", "absent", <<>>)) :
     st \in ErrorStatuses} \cup
  {ModelsOutcome("response", st, b) :
     st \in Statuses \ ErrorStatuses, b \in ModelsBodies}

\* the chunks response.aiter_bytes() can deliver
ChunkBytes == {"data: x", LF}
Chunks == UNION {[1..n -> ChunkBytes] : n \in 0..MaxChunkLen}

\* the upstream request a call issues
ChatUrl(base) == base \o <<"/", "v1/chat/completions">>
ModelsUrl(base) == base \o <<"/", "v1/models">>
UpstreamRequest(method, url, stream, body) ==
  [method |-> method, url |-> url, stream |-> stream, body |-> body]

\* the optional fields tested for truth instead of for None
OptionalKeysIfTruthy(payload) ==
  {k \in {"temperature", "tools", "tool_choice"} :
     payload[k] \notin {PyNone, <<>>, <<"0.0">>}}

\* lines 44-49 and 98-103: the optional fields that are not None
OptionalKeys(payload) ==
  {k \in {"temperature", "tools", "tool_choice"} : payload[k] # PyNone}

\* lines 39-49 and 93-103: the JSON body of the POST, a mapping from its keys
ChatBody(payload, stream) ==
  [k \in {"model", "messages", "stream"} \cup OptionalKeys(payload) |->
     IF k = "stream" THEN (IF stream THEN <<"true">> ELSE <<"false">>)
     ELSE payload[k]]
\* the GET of fetch_models has no body
NoBody == [k \in {} |-> <<>>]

\* what the caller gets back
NoContent == [kind |-> "none", text |-> <<>>, json |-> JNone]
NoResp ==
  [kind |-> "none", status |-> 0, code |-> "", message |-> Absent,
   exc |-> "", content |-> NoContent, models |-> <<>>]
\* an exception that leaves the handler
Raised(exc) == [NoResp EXCEPT !.kind = "raised", !.exc = exc]
\* JSONResponse(status_code, {"error": {"message", "code"}})
ErrorResponse(st, code, message) ==
  [NoResp EXCEPT !.kind = "json", !.status = st, !.code = code,
                 !.message = message,
                 !.content = [kind |-> "error", text |-> <<>>, json |-> JNone]]
\* JSONResponse(status_code, content)
JsonResponse(st, content) ==
  [NoResp EXCEPT !.kind = "json", !.status = st, !.content = content]
\* an exception of app.core.exceptions raised with a message
RaisedWith(exc, message) == [Raised(exc) EXCEPT !.message = message]
\* ApiResponse(success=True, data=SupplierModelsResult(models=models))
ModelsResponse(models) ==
  [NoResp EXCEPT !.kind = "models", !.status = 200, !.models = models]
\* the error_code the exception handler reads off an exception of
\* app.core.exceptions
ErrorCodeOf(exc) ==
  CASE exc = "ValidationError" -> "VALIDATION_ERROR"
    [] exc = "TimeoutError" -> "TIMEOUT"
    [] exc = "NetworkError" -> "NETWORK_ERROR"
    [] exc = "UnauthorizedError" -> "UNAUTHORIZED"
    [] exc = "RateLimitedError" -> "RATE_LIMITED"
    [] OTHER -> "INTERNAL_ERROR"

\* no body was read
NoRaw == [kind |-> "none"]

\* leaving the two `async with` blocks closes the response and the client
Exited(c) == IF c = "open" THEN "closed" ELSE c

\* StreamingResponse(generator, media_type="text/event-stream")
StreamingResponse == [NoResp EXCEPT !.kind = "stream", !.status = 200]

\* an emission of the generator: an upstream chunk relayed, or an error event
FromUpstream(chunk) == [src |-> "upstream", bytes |-> chunk]
FromRelay(event) == [src |-> "relay", bytes |-> event]

VARIABLES
  pc,        \* where the current call is
  req,       \* the payload of the current call
  sent,      \* the upstream requests issued for the current call
  resp,      \* what the handler returned or raised
  upstatus,  \* status code of the streaming upstream response, 0 before it
  received,  \* the chunks read from upstream so far
  pending,   \* the chunk the generator is about to yield
  out,       \* the emissions of the generator so far
  cause,     \* how the upstream exchange ended
  raw,       \* the response body the handler read whole
  conn,      \* the upstream connection of the streaming call
  store,     \* app.state.pending_imports: card id -> entry
  before,    \* pending_imports as it was when the latest import call began
  last,      \* the latest call of the import API and what it returned
  calls,     \* the number of calls of the import API so far
  returned   \* the card ids get_pending_card has returned, in order

\* the state of the relay, and the state of the import API
rvars == <<pc, req, sent, resp, upstatus, received, pending, out, cause, raw, conn>>
ivars == <<store, before, last, calls, returned>>
vars == <<pc, req, sent, resp, upstatus, received, pending, out, cause, raw, conn,
          store, before, last, calls, returned>>

\* no pending_imports yet: getattr(request.app.state, "pending_imports", {})
EmptyStore == [k \in {} |-> <<>>]
\* no call of the import API yet
NoCall ==
  [op |-> "none",
   request |-> [version |-> [present |-> FALSE, parts |-> <<>>], source |-> "none",
                size |-> 0, outcome |-> "none", card |-> "", card_id |-> 0],
   asked |-> 0, success |-> FALSE, status |-> 0,
   card_id |-> 0, error_code |-> "", card |-> "", count |-> 0, cards |-> {}]

Init ==
  /\ pc = "idle"
  /\ req = NoPayload
  /\ sent = <<>>
  /\ resp = NoResp
  /\ upstatus = 0
  /\ received = <<>>
  /\ pending = <<>>
  /\ out = <<>>
  /\ cause = "none"
  /\ raw = NoRaw
  /\ conn = "none"
  /\ store = EmptyStore
  /\ before = EmptyStore
  /\ last = NoCall
  /\ calls = 0
  /\ returned = <<>>

\* the credential check without .strip()
CredentialMissingNoStrip(api_key) == api_key = <<>>

\* proxy_chat, lines 143-146: the credential check, then the normalizer
CredentialMissing(api_key) == api_key = <<>> \/ Strip(api_key) = <<>>

ChatValid(payload) ==
  /\ ~CredentialMissing(payload.api_key)
  /\ _normalize_base_url(payload.base_url).ok

\* proxy_chat raising ValidationError
ProxyChatInvalid(payload) ==
  /\ pc = "idle"
  /\ ~ChatValid(payload)
  /\ pc' = "done"
  /\ req' = payload
  /\ resp' = Raised("ValidationError")
  /\ UNCHANGED <<sent, upstatus, received, pending, out, cause, raw, conn>>

\* _request_chat answering every success with 200 and the text trimmed
RequestChatNormalizing(base_url, outcome) ==
  IF outcome.kind = "timeout" THEN Raised("httpx.TimeoutException")
  ELSE IF outcome.kind = "network" THEN Raised("httpx.RequestError")
  ELSE IF outcome.status >= 400
    THEN LET m == BufferedErrorMessage(outcome.status, outcome.body) IN
         IF m.raised THEN Raised("AttributeError")
         ELSE ErrorResponse(outcome.status, _map_error_code(outcome.status), m.message)
  ELSE IF JsonLoadsFails(outcome.body)
    THEN JsonResponse(200,
           [kind |-> "wrapped", text |-> Strip(ResponseText(outcome.body.text)),
            json |-> JNone])
  ELSE JsonResponse(200,
           [kind |-> "json", text |-> <<>>, json |-> outcome.body.json])

\* _request_chat
RequestChat(base_url, outcome) ==
  IF outcome.kind = "timeout" THEN Raised("httpx.TimeoutException")
  ELSE IF outcome.kind = "network" THEN Raised("httpx.RequestError")
  ELSE IF outcome.status >= 400
    THEN LET m == BufferedErrorMessage(outcome.status, outcome.body) IN
         IF m.raised THEN Raised("AttributeError")
         ELSE ErrorResponse(outcome.status, _map_error_code(outcome.status), m.message)
  ELSE IF JsonLoadsFails(outcome.body)
    THEN JsonResponse(outcome.status,
           [kind |-> "wrapped", text |-> ResponseText(outcome.body.text), json |-> JNone])
  ELSE JsonResponse(outcome.status,
           [kind |-> "json", text |-> <<>>, json |-> outcome.body.json])

\* proxy_chat with stream = false: validation, then _request_chat
ProxyChatBuffered(payload, outcome) ==
  /\ pc = "idle"
  /\ ChatValid(payload)
  /\ ~payload.stream
  /\ LET normalized == _normalize_base_url(payload.base_url).url IN
     /\ sent' = Append(sent,
          UpstreamRequest("POST", ChatUrl(normalized), FALSE, ChatBody(payload, FALSE)))
     /\ resp' = RequestChat(normalized, outcome)
  /\ pc' = "done"
  /\ req' = payload
  /\ upstatus' = outcome.status
  /\ cause' = outcome.kind
  /\ raw' = IF outcome.kind = "response" THEN outcome.body ELSE NoRaw
  /\ UNCHANGED <<received, pending, out, conn>>

\* proxy_chat with stream = true: validation, then the StreamingResponse is
\* returned around a generator that has not run yet
ProxyChatStream(payload) ==
  /\ pc = "idle"
  /\ ChatValid(payload)
  /\ payload.stream
  /\ pc' = "stream_ready"
  /\ req' = payload
  /\ resp' = StreamingResponse
  /\ UNCHANGED <<sent, upstatus, received, pending, out, cause, raw, conn>>

\* the except clauses in the other order: a TimeoutException is a RequestError
StreamFailureRequestErrorFirst(outcome) ==
  /\ out' = Append(out, FromRelay(_format_error_event("NETWORK_ERROR", NetworkMessage)))
  /\ cause' = outcome.kind
  /\ pc' = "done"

\* the failure answered by starting the request again
StreamFailureRetry(outcome) ==
  /\ out' = out
  /\ cause' = outcome.kind
  /\ pc' = "stream_ready"

\* the except clauses of _stream_chat, lines 85-88
StreamFailure(outcome) ==
  /\ out' = Append(out, FromRelay(
       IF outcome.kind = "timeout"
         THEN _format_error_event("TIMEOUT", TimeoutMessage)
         ELSE _format_error_event("NETWORK_ERROR", NetworkMessage)))
  /\ cause' = outcome.kind
  /\ pc' = "done"

\* _stream_chat up to the response headers: client.stream("POST", ...)
StreamOpen(outcome) ==
  /\ pc = "stream_ready"
  /\ sent' = Append(sent,
       UpstreamRequest("POST", ChatUrl(_normalize_base_url(req.base_url).url), TRUE,
                       ChatBody(req, TRUE)))
  /\ IF outcome.kind = "response"
       THEN /\ upstatus' = outcome.status
            /\ pc' = IF outcome.status >= 400 THEN "error_body" ELSE "relay"
            /\ conn' = "open"
            /\ UNCHANGED <<out, cause>>
       ELSE /\ StreamFailure(outcome)
            /\ UNCHANGED <<upstatus, conn>>
  /\ UNCHANGED <<req, resp, received, pending, raw>>

\* _stream_chat, lines 62-80: status >= 400, the body is read and translated
StreamErrorBody(outcome) ==
  /\ pc = "error_body"
  /\ IF outcome.kind = "response"
       THEN LET m == StreamErrorMessage(upstatus, outcome.body) IN
            /\ raw' = outcome.body
            /\ IF m.raised
                 THEN /\ cause' = "AttributeError"
                      /\ pc' = "done"
                      /\ conn' = Exited(conn)
                      /\ UNCHANGED out
                 ELSE /\ cause' = "status"
                      /\ pc' = "yield_event"
                      /\ out' = Append(out, FromRelay(
                           _format_error_event(_map_error_code(upstatus), m.message)))
                      /\ UNCHANGED conn
       ELSE /\ StreamFailure(outcome)
            /\ conn' = Exited(conn)
            /\ UNCHANGED raw
  /\ UNCHANGED <<req, sent, resp, upstatus, received, pending>>

\* _stream_chat, line 80: resumed after the error event, the generator returns
StreamReturn ==
  /\ pc = "yield_event"
  /\ pc' = "done"
  /\ conn' = Exited(conn)
  /\ UNCHANGED <<req, sent, resp, upstatus, received, pending, out, cause, raw>>

\* the generator abandoned with the response and the client left open
CallerDisconnectLeavesOpen ==
  /\ pc \in {"stream_ready", "error_body", "relay", "yield", "yield_event"}
  /\ pc' = "done"
  /\ cause' = "cancelled"
  /\ UNCHANGED <<req, sent, resp, upstatus, received, pending, out, raw, conn>>

\* the caller goes away while the generator is suspended (at an await of the
\* upstream or at a yield): CancelledError or GeneratorExit is raised there,
\* no except clause of lines 85-88 catches it, and it leaves the two
\* `async with` blocks of lines 59-61
CallerDisconnect ==
  /\ pc \in {"stream_ready", "error_body", "relay", "yield", "yield_event"}
  /\ pc' = "done"
  /\ cause' = "cancelled"
  /\ conn' = Exited(conn)
  /\ UNCHANGED <<req, sent, resp, upstatus, received, pending, out, raw>>

\* the chunk kept and the next one read before anything is yielded
StreamReadChunkBuffering(chunk) ==
  /\ pc = "relay"
  /\ Len(received) < MaxChunks
  /\ received' = Append(received, chunk)
  /\ pending' = pending \o chunk
  /\ pc' = IF Len(received') = MaxChunks /\ pending' # <<>> THEN "yield" ELSE "relay"
  /\ UNCHANGED <<req, sent, resp, upstatus, out, cause, raw, conn>>

\* _stream_chat, line 82: one step of response.aiter_bytes() delivering a chunk
StreamReadChunk(chunk) ==
  /\ pc = "relay"
  /\ Len(received) < MaxChunks
  /\ received' = Append(received, chunk)
  /\ IF chunk # <<>>
       THEN pending' = chunk /\ pc' = "yield"
       ELSE UNCHANGED <<pending, pc, raw, conn>>
  /\ UNCHANGED <<req, sent, resp, upstatus, out, cause, raw, conn>>

\* the chunk put in front of what was relayed before
StreamYieldReordered ==
  /\ pc = "yield"
  /\ out' = <<FromUpstream(pending)>> \o out
  /\ pending' = <<>>
  /\ pc' = "relay"
  /\ UNCHANGED <<req, sent, resp, upstatus, received, cause, raw, conn>>

\* _stream_chat, line 84: yield chunk
StreamYield ==
  /\ pc = "yield"
  /\ out' = Append(out, FromUpstream(pending))
  /\ pending' = <<>>
  /\ pc' = "relay"
  /\ UNCHANGED <<req, sent, resp, upstatus, received, cause, raw, conn>>

\* the end of the body reported to the caller as a timeout
StreamEndAsTimeout ==
  /\ pc = "relay"
  /\ pc' = "done"
  /\ cause' = "eof"
  /\ out' = Append(out, FromRelay(_format_error_event("TIMEOUT", TimeoutMessage)))
  /\ conn' = Exited(conn)
  /\ UNCHANGED <<req, sent, resp, upstatus, received, pending, raw>>

\* response.aiter_bytes() ends: the upstream closed the body
StreamEnd ==
  /\ pc = "relay"
  /\ pc' = "done"
  /\ cause' = "eof"
  /\ conn' = Exited(conn)
  /\ UNCHANGED <<req, sent, resp, upstatus, received, pending, out, raw>>

\* response.aiter_bytes() raises: a read timeout or another transport failure
StreamReadFails(outcome) ==
  /\ pc = "relay"
  /\ outcome \in TransportFailures
  /\ StreamFailure(outcome)
  /\ conn' = Exited(conn)
  /\ UNCHANGED <<req, sent, resp, upstatus, received, pending, raw>>

\* the test `"id" in item` in place of the truth of item.get("id")
IdPresent(f) == f.t # "absent"

\* item.get("id") is truthy
IdTruthy(f) ==
  \/ f.t = "str" /\ f.s # <<>>
  \/ f.t = "num" /\ f.s # <<"0">>

\* fetch_models, lines 71-80: the list of SupplierModel(id=str(item["id"]))
RECURSIVE ModelIds(_)
ModelIds(items) ==
  IF items = <<>> THEN <<>>
  ELSE LET item == Head(items) IN
       (IF item.t = "dict" /\ IdTruthy(item.id) THEN <<item.id.s>> ELSE <<>>)
         \o ModelIds(Tail(items))

\* fetch_models after validation: the GET and the translation of its outcome
FetchModelsResult(outcome) ==
  IF outcome.kind = "timeout"
    THEN RaisedWith("TimeoutError", TimeoutMessage)
  ELSE IF outcome.kind = "network"
    THEN RaisedWith("NetworkError", NetworkMessage)
  ELSE IF outcome.status = 401
    THEN RaisedWith("UnauthorizedError", JStr(<<"Unauthorized">>))
  ELSE IF outcome.status = 429
    THEN RaisedWith("RateLimitedError", JStr(<<"Rate limit exceeded">>))
  ELSE IF outcome.status >= 400
    THEN RaisedWith("NetworkError",
           JStr(<<"Upstream error: ", ToString(outcome.status)>>))
  ELSE IF outcome.body.kind = "text"
    THEN RaisedWith("ValidationError", JStr(<<"parse failed">>))
  ELSE IF outcome.body.kind # "json_obj" \/ outcome.body.data # "list"
    THEN ModelsResponse(<<>>)
  ELSE ModelsResponse(ModelIds(outcome.body.items))

ModelsValid(payload) ==
  /\ ~CredentialMissing(payload.api_key)
  /\ _normalize_base_url(payload.base_url).ok

\* get_supplier_models -> fetch_models raising ValidationError before the GET
FetchModelsInvalid(payload) ==
  /\ pc = "idle"
  /\ ~ModelsValid(payload)
  /\ pc' = "done"
  /\ req' = payload
  /\ resp' = Raised("ValidationError")
  /\ UNCHANGED <<sent, upstatus, received, pending, out, cause, raw, conn>>

\* get_supplier_models -> fetch_models
FetchModels(payload, outcome) ==
  /\ pc = "idle"
  /\ ModelsValid(payload)
  /\ sent' = Append(sent,
       UpstreamRequest("GET", ModelsUrl(_normalize_base_url(payload.base_url).url), FALSE,
                       NoBody))
  /\ resp' = FetchModelsResult(outcome)
  /\ pc' = "done"
  /\ req' = payload
  /\ upstatus' = outcome.status
  /\ cause' = outcome.kind
  /\ raw' = IF outcome.kind = "response" /\ outcome.status < 400
              THEN outcome.body ELSE NoRaw
  /\ UNCHANGED <<received, pending, out, conn>>

\* the call is over; the next one starts from nothing (no state is shared)
NextCall ==
  /\ pc = "done"
  /\ pc' = "idle"
  /\ req' = NoPayload
  /\ sent' = <<>>
  /\ resp' = NoResp
  /\ upstatus' = 0
  /\ received' = <<>>
  /\ pending' = <<>>
  /\ out' = <<>>
  /\ cause' = "none"
  /\ raw' = NoRaw
  /\ conn' = "none"

Next ==
  \/ pc = "idle" /\ (\E payload \in ChatPayloads : ProxyChatInvalid(payload))
       /\ UNCHANGED ivars
  \/ pc = "idle" /\ (\E payload \in ChatPayloads, outcome \in BufferedOutcomes :
       ProxyChatBuffered(payload, outcome)) /\ UNCHANGED ivars
  \/ pc = "idle" /\ (\E payload \in ChatPayloads : ProxyChatStream(payload))
       /\ UNCHANGED ivars
  \/ pc = "idle" /\ (\E payload \in ModelsPayloads : FetchModelsInvalid(payload))
       /\ UNCHANGED ivars
  \/ pc = "idle" /\ (\E payload \in ModelsPayloads, outcome \in ModelsOutcomes :
       FetchModels(payload, outcome)) /\ UNCHANGED ivars
  \/ pc = "stream_ready" /\ (\E outcome \in HeaderOutcomes : StreamOpen(outcome))
       /\ UNCHANGED ivars
  \/ pc = "error_body" /\ (\E outcome \in BodyOutcomes : StreamErrorBody(outcome))
       /\ UNCHANGED ivars
  \/ pc = "relay" /\ (\E chunk \in Chunks : StreamReadChunk(chunk))
       /\ UNCHANGED ivars
  \/ StreamYield /\ UNCHANGED ivars
  \/ pc = "relay" /\ (\E outcome \in TransportFailures : StreamReadFails(outcome))
       /\ UNCHANGED ivars
  \/ StreamEnd /\ UNCHANGED ivars
  \/ StreamReturn /\ UNCHANGED ivars
  \/ CallerDisconnect /\ UNCHANGED ivars
  \/ NextCall /\ UNCHANGED ivars

Spec == Init /\ [][Next]_vars

(* =============== the import API (api/remote_import.py) ================ *)
\* Settings.max_upload_mb and Settings.max_upload_bytes
MaxUploadMb == 20
MaxUploadBytes == MaxUploadMb * 1024 * 1024

\* one dot-separated part of a version string: a number, or text int() rejects
Num(n) == [num |-> TRUE, v |-> n]
NotNum == [num |-> FALSE, v |-> 0]
\* the X-Arcaferry-Version header: absent, or a string split at its dots
NoHeader == [present |-> FALSE, parts |-> <<>>]
Header(parts) == [present |-> TRUE, parts |-> parts]
\* no header, "", "0.1.0", "0.0.9", "0.1", "1", "1.2.x", "1.0.0"
Versions ==
  {NoHeader, Header(<<>>), Header(<<Num(0), Num(1), Num(0)>>),
   Header(<<Num(0), Num(0), Num(9)>>), Header(<<Num(0), Num(1)>>),
   Header(<<Num(1)>>), Header(<<Num(1), Num(2), NotNum>>),
   Header(<<Num(1), Num(0), Num(0)>>)}

\* MIN_ARCAFERRY_VERSION = "0.1.0"
MIN_ARCAFERRY_VERSION == <<Num(0), Num(1), Num(0)>>

\* parse_version: (0, 0, 0) on the IndexError of a missing second part and on
\* the ValueError of int() on a part that is not a number
parse_version(parts) ==
  IF Len(parts) < 2 THEN <<0, 0, 0>>
  ELSE IF ~parts[1].num \/ ~parts[2].num \/ (Len(parts) > 2 /\ ~parts[3].num)
    THEN <<0, 0, 0>>
  ELSE <<parts[1].v, parts[2].v, IF Len(parts) > 2 THEN parts[3].v ELSE 0>>

\* the order of Python tuples
TupleLess(a, b) ==
  \/ a[1] < b[1]
  \/ a[1] = b[1] /\ a[2] < b[2]
  \/ a[1] = b[1] /\ a[2] = b[2] /\ a[3] < b[3]

\* check_version_compatibility returns an error message (TRUE) or None (FALSE)
check_version_compatibility(client_version) ==
  IF ~client_version.present \/ client_version.parts = <<>> THEN FALSE
  ELSE TupleLess(parse_version(client_version.parts),
                 parse_version(MIN_ARCAFERRY_VERSION))

\* str(uuid.uuid4())[:8]: any of the ids, whether or not it is in use
CardIds == 1..NumIds
\* the cards a request can carry, each named by its data.name
Cards == {"Alice", "Bob"}
\* how the card arrives: an uploaded file, a JSON body, any other content type
Sources == {"file", "json", "other"}
\* len(content) of an uploaded file, around the limit
Sizes == {MaxUploadBytes, MaxUploadBytes + 1}
\* what reading and validating the card does: it succeeds, or raises
ParseOutcomes(source) ==
  IF source = "file" THEN {"ok", "CardImportError", "Exception"}
  ELSE IF source = "json"
    THEN {"ok", "JSONDecodeError", "PydanticValidationError", "Exception"}
  ELSE {"ok"}

\* a request, with the id uuid4 would draw for it
ImportRequests ==
  {r \in [version : Versions, source : Sources, size : Sizes,
          outcome : UNION {ParseOutcomes(s) : s \in Sources},
          card : Cards, card_id : CardIds] :
     /\ r.outcome \in ParseOutcomes(r.source)
     /\ r.source # "file" => r.size = MaxUploadBytes}

\* the error_code of import_remote_card's response, "" on success
ImportErrorCode(r) ==
  IF check_version_compatibility(r.version) THEN "VERSION_MISMATCH"
  ELSE IF r.source = "file" THEN
    IF r.outcome = "Exception" THEN "INTERNAL_ERROR"
    ELSE IF r.size > MaxUploadBytes THEN "VALIDATION_ERROR"
    ELSE IF r.outcome = "CardImportError" THEN "VALIDATION_ERROR"
    ELSE ""
  ELSE IF r.source = "json" THEN
    IF r.outcome \in {"JSONDecodeError", "PydanticValidationError"}
      THEN "VALIDATION_ERROR"
    ELSE IF r.outcome = "Exception" THEN "INTERNAL_ERROR"
    ELSE ""
  ELSE "VALIDATION_ERROR"

\* pending_imports[card_id] = {"card": card.model_dump(), "name": card.data.name}
Entry(card) == [card |-> card, name |-> card]
Put(d, k, v) == [x \in DOMAIN d \cup {k} |-> IF x = k THEN v ELSE d[x]]
\* pending.pop(card_id)
Pop(d, k) == [x \in DOMAIN d \ {k} |-> d[x]]

\* POST /api/import/remote
import_remote_card(r) ==
  /\ calls < MaxCalls
  /\ calls' = calls + 1
  /\ before' = store
  /\ LET code == ImportErrorCode(r) IN
       /\ store' = IF code = "" THEN Put(store, r.card_id, Entry(r.card)) ELSE store
       /\ last' = [NoCall EXCEPT !.op = "import", !.request = r,
                                 !.success = (code = ""), !.status = 200,
                                 !.card_id = IF code = "" THEN r.card_id ELSE 0,
                                 !.error_code = code]
  /\ UNCHANGED returned
  /\ UNCHANGED rvars

\* GET /api/import/pending
get_pending_imports ==
  /\ calls < MaxCalls
  /\ calls' = calls + 1
  /\ before' = store
  /\ last' = [NoCall EXCEPT !.op = "list", !.status = 200,
                            !.count = Cardinality(DOMAIN store),
                            !.cards = {[id |-> k, name |-> store[k].name] :
                                         k \in DOMAIN store}]
  /\ UNCHANGED <<store, returned>>
  /\ UNCHANGED rvars

\* GET /api/import/pending/{card_id}
get_pending_card(card_id) ==
  /\ calls < MaxCalls
  /\ calls' = calls + 1
  /\ before' = store
  /\ IF card_id \notin DOMAIN store
       THEN /\ last' = [NoCall EXCEPT !.op = "fetch", !.asked = card_id,
                                      !.status = 404]
            /\ UNCHANGED <<store, returned>>
       ELSE /\ store' = Pop(store, card_id)
            /\ returned' = Append(returned, card_id)
            /\ last' = [NoCall EXCEPT !.op = "fetch", !.asked = card_id,
                                      !.status = 200, !.success = TRUE,
                                      !.card = store[card_id].card]
  /\ UNCHANGED rvars

ImportNext ==
  \/ \E r \in ImportRequests : import_remote_card(r)
  \/ get_pending_imports
  \/ \E card_id \in CardIds : get_pending_card(card_id)

ImportSpec == Init /\ [][ImportNext]_vars

(* ====================== properties of the relay ======================= *)
IsChat == req.op = "chat"
Buffered == IsChat /\ ~req.stream
Streaming == IsChat /\ req.stream
TransportFailed == cause \in {"timeout", "network"}
\* the caller went away before the stream was over
Cancelled == cause = "cancelled"
\* the upstream answered with a status >= 400 and its body was read
ErrorBodyRead == cause \in {"status", "AttributeError"}

\* the bytes the caller has received from the stream
Emitted == Flatten([i \in 1..Len(out) |-> out[i].bytes])
\* the part of them relayed from upstream, and the relay's own events
Relayed == SelectSeq(out, LAMBDA e : e.src = "upstream")
RelayedBytes == Flatten([i \in 1..Len(Relayed) |-> Relayed[i].bytes])
Events == SelectSeq(out, LAMBDA e : e.src = "relay")

IsErrorEvent(bytes) ==
  /\ Len(bytes) >= 11
  /\ SubSeq(bytes, 1, 6) = <<"event: error", LF, "data: ", "{", "\"code\": ", "\"">>
  /\ SubSeq(bytes, Len(bytes) - 2, Len(bytes)) = <<"}", LF, LF>>
EventCode(bytes) == bytes[7]

\* an SSE stream is at an event boundary at its start and after a blank line
EndsOnBoundary(bytes) ==
  \/ bytes = <<>>
  \/ bytes = <<LF>>
  \/ Len(bytes) >= 2 /\ bytes[Len(bytes)] = LF /\ bytes[Len(bytes) - 1] = LF

\* the bytes emitted before emission i
EmittedBefore(i) == Flatten([j \in 1..(i - 1) |-> out[j].bytes])

\* the non-empty chunks among those received, in order
NonEmptyReceived == SelectSeq(received, LAMBDA c : c # <<>>)

\* C1: buffered chat never throws: whatever the single POST does, the call
\* returns a (status, body) response, with code TIMEOUT for a timeout and
\* NETWORK_ERROR for another transport failure, and a normalized error body
\* for a status >= 400; no exception leaves the handler.
C1_BufferedNeverThrows ==
  (Buffered /\ pc = "done" /\ sent # <<>>) =>
    /\ resp.kind = "json"
    /\ (cause = "timeout" => resp.code = "TIMEOUT")
    /\ (cause = "network" => resp.code = "NETWORK_ERROR")
    /\ (cause = "response" /\ upstatus >= 400 => resp.content.kind = "error")

C3_StreamTransportFailure ==
  Streaming =>
    /\ \A i \in 1..Len(out) : out[i].src = "relay" => i = Len(out)
    /\ TransportFailed =>
         /\ pc = "done"
         /\ Len(Events) = 1
         /\ out[Len(out)].src = "relay"
         /\ IsErrorEvent(out[Len(out)].bytes)
         /\ EventCode(out[Len(out)].bytes) =
              (IF cause = "timeout" THEN "TIMEOUT" ELSE "NETWORK_ERROR")
         /\ Emitted = Flatten(NonEmptyReceived) \o out[Len(out)].bytes

C3_Witness ==
  /\ Streaming /\ cause = "timeout" /\ pc = "done"
  /\ Len(out) >= 2 /\ out[1].src = "upstream"
  /\ EventCode(out[Len(out)].bytes) = "TIMEOUT"

\* C4: in streaming mode, for every upstream status >= 400 and every error
\* body, the caller's output is exactly one SSE error event and no upstream
\* byte.
C4_StreamErrorStatusOneEvent ==
  (Streaming /\ pc = "done" /\ upstatus >= 400 /\ ErrorBodyRead) =>
    /\ Len(out) = 1
    /\ out[1].src = "relay"
    /\ IsErrorEvent(out[1].bytes)

\* C5: every streaming run ends on an SSE event boundary, and the relay's
\* error event starts at an event boundary, so it is an event of its own and
\* not the continuation of an unfinished upstream frame.
C5_NoBrokenFrame ==
  (Streaming /\ pc = "done" /\ ~Cancelled) =>
    /\ EndsOnBoundary(Emitted)
    /\ \A i \in 1..Len(out) :
         out[i].src = "relay" =>
           IsErrorEvent(out[i].bytes) /\ EndsOnBoundary(EmittedBefore(i))

CallerErrorCode ==
  IF resp.kind = "raised" THEN ErrorCodeOf(resp.exc) ELSE resp.code

\* C7: a chat or model-list call whose credential is empty or blank, or whose
\* base URL the normalizer rejects, fails with VALIDATION_ERROR, issues no
\* upstream request, and in streaming mode starts no stream.
C7_ValidationBeforeNetwork ==
  (req.op # "none" /\
     (req.api_key = <<>> \/ \A i \in 1..Len(req.api_key) : req.api_key[i] \in Whitespace
        \/ ~_normalize_base_url(req.base_url).ok)) =>
    /\ sent = <<>>
    /\ pc = "done"
    /\ resp.kind = "raised" /\ resp.exc = "ValidationError"
    /\ CallerErrorCode = "VALIDATION_ERROR"
    /\ out = <<>> /\ received = <<>>

C7_Witness ==
  /\ Streaming /\ pc = "done"
  /\ req.api_key = <<SP, LF>>
  /\ _normalize_base_url(req.base_url).ok
  /\ sent = <<>> /\ resp.exc = "ValidationError"

\* what the claim C8 calls a base URL without a scheme or without a host
LacksSchemeOrHost(u) == UrlScheme(u) = "" \/ UrlHostname(u) = None
IsLoopback(u) == UrlHostname(u) \in {"localhost", "127.0.0.1", "::1"}
IsBlank(u) == \A i \in 1..Len(u) : u[i] \in Whitespace

\* C8: a base URL that is empty or blank, lacks a scheme or a host, or names
\* localhost, 127.0.0.1 or ::1 in any letter case is rejected with a
\* validation error, and no upstream request is addressed to a loopback host.
C8_NormalizerRejects ==
  /\ (req.op # "none" /\ ~CredentialMissing(req.api_key) /\
        (IsBlank(req.base_url) \/ LacksSchemeOrHost(req.base_url)
           \/ IsLoopback(req.base_url))) =>
       (resp.kind = "raised" /\ resp.exc = "ValidationError" /\ sent = <<>>)
  /\ \A i \in 1..Len(sent) : ~IsLoopback(sent[i].url)

\* the code the claims C9 and C10 give for a status
ClaimedBufferedCode(st) ==
  CASE st = 401 -> "UNAUTHORIZED"
    [] st = 429 -> "RATE_LIMITED"
    [] st = 400 -> "VALIDATION_ERROR"
    [] OTHER -> "UPSTREAM_ERROR"

\* C9: in buffered mode an upstream status s >= 400 comes back as status s
\* with body {error: {message, code}}, the code by the table 401, 429, 400,
\* other; a 429 is RATE_LIMITED in streaming mode too.
C9_BufferedErrorTranslation ==
  /\ (Buffered /\ pc = "done" /\ cause = "response" /\ upstatus >= 400) =>
       /\ resp.kind = "json"
       /\ resp.status = upstatus
       /\ resp.content.kind = "error"
       /\ resp.code = ClaimedBufferedCode(upstatus)
  /\ (Streaming /\ pc = "done" /\ upstatus = 429 /\ ErrorBodyRead) =>
       (Len(out) = 1 /\ EventCode(out[1].bytes) = "RATE_LIMITED")

\* C10 as stated: in streaming mode the error event for a status >= 400 other
\* than 401 and 429, 400 included, has code UPSTREAM_ERROR.
C10_StreamingMaps400ToUpstreamError ==
  (Streaming /\ pc = "done" /\ cause = "status" /\ upstatus \notin {401, 429}) =>
    (Len(out) = 1 /\ EventCode(out[1].bytes) = "UPSTREAM_ERROR")

\* C10 amended: both modes translate a status through the same table: the
\* streaming error event for a status 400 has code VALIDATION_ERROR as the
\* buffered response has, 401 is UNAUTHORIZED, 429 is RATE_LIMITED, and every
\* other status >= 400 is UPSTREAM_ERROR.
C10_SameTableInBothModes ==
  /\ (Streaming /\ pc = "done" /\ cause = "status") =>
       /\ Len(out) = 1
       /\ IsErrorEvent(out[1].bytes)
       /\ EventCode(out[1].bytes) = ClaimedBufferedCode(upstatus)
  /\ (Buffered /\ pc = "done" /\ resp.kind = "json" /\ upstatus >= 400) =>
       resp.code = ClaimedBufferedCode(upstatus)

C10_Witness ==
  /\ Streaming /\ pc = "done" /\ cause = "status" /\ upstatus = 400
  /\ Len(out) = 1 /\ EventCode(out[1].bytes) = "VALIDATION_ERROR"

(* ================= properties of the model lister ==================== *)
IsModels == req.op = "models"
\* fetch_models got past validation and issued its GET
Listed == IsModels /\ pc = "done" /\ sent # <<>>

\* C11: the model lister reports TIMEOUT for an upstream timeout,
\* NETWORK_ERROR for any other transport failure, UNAUTHORIZED for a 401,
\* RATE_LIMITED for a 429, UPSTREAM_ERROR carrying the numeric status for any
\* other status >= 400, and VALIDATION_ERROR for a 2xx body that is not JSON;
\* a status >= 400 is never reported with the kind of a transport failure.
C11_ModelListerErrorTranslation ==
  Listed =>
    /\ (cause = "timeout" => CallerErrorCode = "TIMEOUT")
    /\ (cause = "network" => CallerErrorCode = "NETWORK_ERROR")
    /\ (cause = "response" /\ upstatus = 401 => CallerErrorCode = "UNAUTHORIZED")
    /\ (cause = "response" /\ upstatus = 429 => CallerErrorCode = "RATE_LIMITED")
    /\ (cause = "response" /\ upstatus >= 400 /\ upstatus \notin {401, 429} =>
          /\ CallerErrorCode = "UPSTREAM_ERROR"
          /\ resp.exc # "NetworkError"
          /\ resp.message = JStr(<<"Upstream error: ", ToString(upstatus)>>))
    /\ (cause = "response" /\ upstatus < 400 /\ raw.kind = "text" =>
          CallerErrorCode = "VALIDATION_ERROR")

(* ================== properties of the error message =================== *)
\* the JSON text of the "message" member of an error event
EventMessageText(bytes) == SubSeq(bytes, 11, Len(bytes) - 3)
\* a JSON text that is a string literal with at least one character
IsNonEmptyStringText(text) ==
  Len(text) >= 3 /\ text[1] = "\"" /\ text[Len(text)] = "\""
\* a message value that is a non-empty string
IsNonEmptyString(m) == m.t = "str" /\ m.s # <<>>

\* C12: for every failure the relay surfaces, in either mode and for every
\* upstream error body, the message delivered to the caller is a non-empty
\* string, and computing it never raises.
C12_MessageNonEmptyString ==
  /\ (Buffered /\ pc = "done" /\ cause = "response" /\ upstatus >= 400) =>
       /\ resp.kind = "json"
       /\ IsNonEmptyString(resp.message)
  /\ (Streaming /\ pc = "done" /\ ErrorBodyRead) =>
       /\ cause # "AttributeError"
       /\ Len(out) = 1
       /\ IsNonEmptyStringText(EventMessageText(out[1].bytes))
  /\ (Streaming /\ pc = "done" /\ TransportFailed) =>
       IsNonEmptyStringText(EventMessageText(out[Len(out)].bytes))

(* ================== properties of the outgoing body =================== *)
OptionalFields == {"temperature", "tools", "tool_choice"}
JsonNull == <<"null">>

\* C13: in both modes the body sent upstream has model, messages and stream
\* (false in buffered mode, true in streaming mode), has each of temperature,
\* tools and tool_choice exactly when the request sets it (a value that is
\* not None, zero and the empty list included) and with the request's value,
\* has no key with a null value and no other key, and carries the request's
\* messages unchanged and in order.
C13_OutgoingBody ==
  (IsChat /\ sent # <<>>) =>
    LET body == sent[1].body IN
    /\ {"model", "messages", "stream"} \subseteq DOMAIN body
    /\ DOMAIN body \subseteq {"model", "messages", "stream"} \cup OptionalFields
    /\ body["stream"] = (IF req.stream THEN <<"true">> ELSE <<"false">>)
    /\ body["model"] = req.model
    /\ body["messages"] = req.messages
    /\ \A k \in OptionalFields :
         /\ k \in DOMAIN body <=> req[k] # PyNone
         /\ k \in DOMAIN body => body[k] = req[k]
    /\ \A k \in DOMAIN body : body[k] \notin {JsonNull, PyNone}

C13_Witness ==
  /\ Streaming /\ pc = "relay" /\ Len(sent) = 1
  /\ req.temperature = <<"0.0">> /\ req.tools = PyNone /\ req.tool_choice = <<"auto">>
  /\ DOMAIN sent[1].body = {"model", "messages", "stream", "temperature", "tool_choice"}
  /\ sent[1].body["temperature"] = <<"0.0">>

(* =================== properties of the model list ===================== *)
\* an "id" the claim C14 calls missing or empty: no key, null, the empty
\* string, and the number zero, which is as falsy as they are
EmptyId(f) ==
  \/ f.t \in {"absent", "null"}
  \/ f.t = "str" /\ f.s = <<>>
  \/ f.t = "num" /\ f.s = <<"0">>
HasId(item) == item.t = "dict" /\ ~EmptyId(item.id)
\* the elements of "data" that are objects with an id, in their order
EntriesOf(items) ==
  LET kept == SelectSeq(items, HasId) IN [i \in 1..Len(kept) |-> kept[i].id.s]

\* C14: on a 2xx JSON response the model lister returns one entry for each
\* element of "data" that is an object with a non-empty id, in the original
\* order and nothing else; when the body is not an object, or "data" is
\* missing or not an array, it returns the empty list and raises nothing.
C14_ModelListFiltering ==
  (Listed /\ cause = "response" /\ upstatus < 400 /\ raw.kind # "text") =>
    /\ resp.kind = "models"
    /\ resp.models =
         (IF raw.kind = "json_obj" /\ raw.data = "list"
            THEN EntriesOf(raw.items) ELSE <<>>)

C14_Witness ==
  /\ Listed /\ upstatus = 200 /\ raw.kind = "json_obj" /\ raw.data = "list"
  /\ Len(raw.items) = 3
  /\ raw.items[1] = [t |-> "dict", id |-> JStr(<<"gpt-b">>)]
  /\ raw.items[2] = [t |-> "dict", id |-> JStr(<<>>)]
  /\ raw.items[3] = [t |-> "dict", id |-> JStr(<<"gpt-a">>)]
  /\ resp.models = << <<"gpt-b">>, <<"gpt-a">> >>

(* =================== properties of the normalizer ===================== *)
\* k slash characters
Slashes(k) == [i \in 1..k |-> "/"]

\* C15: for every base URL u the normalizer accepted for a request, and
\* every k from 0 to MaxSlashes, u followed by k slashes normalizes to what u
\* normalizes to; the result does not end with a slash, normalizes to itself,
\* and is the base of the URL the request went to.
C15_NormalizeIdempotent ==
  (sent # <<>>) =>
    LET u == req.base_url
        n == _normalize_base_url(u)
    IN /\ n.ok
       /\ n.url # <<>> /\ n.url[Len(n.url)] # "/"
       /\ \A k \in 0..MaxSlashes : _normalize_base_url(u \o Slashes(k)) = n
       /\ _normalize_base_url(n.url) = n
       /\ IsPrefix(n.url, sent[1].url)
       /\ sent[1].url[Len(n.url) + 1] = "/"
       /\ Len(sent[1].url) = Len(n.url) + 2

C15_Witness ==
  /\ pc = "done" /\ Len(sent) = 1
  /\ req.base_url = <<"https", ":", "//", "api.example.com", "/", "v1", "/", "/">>
  /\ sent[1].url = <<"https", ":", "//", "api.example.com", "/", "v1", "/", "v1/models">>

(* ==================== properties of the SSE framer ==================== *)
\* what a JSON parser reads back from one escaped character
Unescape(c) ==
  IF c = "\\n" THEN LF
  ELSE IF c = "\\\"" THEN "\""
  ELSE IF c = "\\\\" THEN Backslash
  ELSE c
\* the string a JSON parser reads back from a string literal
ParsedString(text) == [i \in 1..(Len(text) - 2) |-> Unescape(text[i + 1])]
IsStringLiteral(text) ==
  /\ Len(text) >= 2 /\ text[1] = "\"" /\ text[Len(text)] = "\""
  /\ \A i \in 2..(Len(text) - 1) : text[i] \notin {"\"", Backslash, LF}

\* bytes is the frame of the claim C16 for this code and this message
FrameShape(bytes, code, message) ==
  /\ Len(bytes) >= 15
  /\ SubSeq(bytes, 1, 3) = <<"event: error", LF, "data: ">>
  /\ bytes[Len(bytes) - 1] = LF /\ bytes[Len(bytes)] = LF
  /\ {i \in 1..(Len(bytes) - 1) : bytes[i] = LF /\ bytes[i + 1] = LF} = {Len(bytes) - 1}
  /\ LET payload == SubSeq(bytes, 4, Len(bytes) - 2)
         text == SubSeq(payload, 8, Len(payload) - 1)
     IN /\ \A i \in 1..Len(payload) : payload[i] # LF
        /\ payload[1] = "{" /\ payload[Len(payload)] = "}"
        /\ SubSeq(payload, 2, 7) =
             <<"\"code\": ", "\"", code, "\"", ", ", "\"message\": ">>
        /\ IsStringLiteral(text)
        /\ ParsedString(text) = message

\* C16: every error event the relay emits for a kind and a message string
\* (with line breaks, quotes, backslashes or non-ASCII characters in it) is
\* the line "event: error", one line "data: " with the JSON object of code and
\* message, and a blank line: one event terminator, at the end, no raw line
\* break in the data, and the message read back from the JSON is the message.
C16_ErrorFrameShape ==
  /\ (Streaming /\ TransportFailed) =>
       FrameShape(out[Len(out)].bytes,
                  IF cause = "timeout" THEN "TIMEOUT" ELSE "NETWORK_ERROR",
                  IF cause = "timeout" THEN <<"Request timed out">>
                                       ELSE <<"Network request failed">>)
  /\ (Streaming /\ cause = "status" /\
        StreamErrorMessage(upstatus, raw).message.t = "str") =>
       FrameShape(out[1].bytes, _map_error_code(upstatus),
                  StreamErrorMessage(upstatus, raw).message.s)

C16_Witness ==
  /\ Streaming /\ cause = "status" /\ upstatus = 500
  /\ raw = TextBody(<<"caf", NonAscii, Backslash, "n">>)
  /\ out[1].bytes =
       <<"event: error", LF, "data: ", "{", "\"code\": ", "\"", "UPSTREAM_ERROR",
         "\"", ", ", "\"message\": ", "\"", "caf", NonAscii, "\\\\", "n", "\"",
         "}", LF, LF>>

C16_WitnessLineBreak ==
  /\ Streaming /\ cause = "status"
  /\ StreamErrorMessage(upstatus, raw).message = JStr(<<"quota", LF, "exceeded">>)
  /\ EventMessageText(out[1].bytes) = <<"\"", "quota", "\\n", "exceeded", "\"">>

(* ============== properties of the upstream connection ================= *)
\* C17: a streaming call that is over, for whatever reason (the upstream
\* closed the body, an error event was emitted, the generator raised, or the
\* caller went away at any await or yield), has no open upstream connection:
\* the connection it opened is closed; and the step at which the caller goes
\* away adds nothing, so no error event, to the output.
C17_UpstreamClosed ==
  /\ [](Streaming /\ pc = "done" =>
          /\ conn # "open"
          /\ (upstatus # 0 => conn = "closed"))
  /\ [][(cause' = "cancelled" /\ cause # "cancelled") => out' = out]_vars

C17_Witness ==
  /\ Streaming /\ pc = "done" /\ Cancelled
  /\ upstatus = 200 /\ conn = "closed"
  /\ Len(received) = 2 /\ pending # <<>>
  /\ Len(out) = 1 /\ out[1].src = "upstream"

(* ================= properties of stream termination =================== *)
\* a step of the generator of a streaming call
StreamStep ==
  \/ pc = "stream_ready" /\ \E outcome \in HeaderOutcomes : StreamOpen(outcome)
  \/ pc = "error_body" /\ \E outcome \in BodyOutcomes : StreamErrorBody(outcome)
  \/ pc = "relay" /\ \E chunk \in Chunks : StreamReadChunk(chunk)
  \/ StreamYield
  \/ pc = "relay" /\ \E outcome \in TransportFailures : StreamReadFails(outcome)
  \/ StreamEnd
  \/ StreamReturn

\* every upstream read returns (a chunk, the end, a failure or the timeout of
\* line 57) and the caller keeps taking what is yielded
FairSpec == Spec /\ WF_vars(StreamStep)

\* a streaming call, the upstream body being at most MaxChunks chunks long,
\* comes to its end
StreamTerminates == (Streaming /\ pc # "done") ~> (pc = "done")

\* an upstream error reached a streaming call: a transport failure, or a
\* status >= 400 whose body was read
UpstreamErrorSeen == TransportFailed \/ ErrorBodyRead

\* C18: a streaming call that has begun keeps the status of its
\* StreamingResponse, and when it is over every upstream error it met has been
\* delivered in-band: the output ends with an SSE error event.
C18_ErrorsInBand ==
  Streaming /\ sent # <<>> =>
    /\ resp.kind = "stream" /\ resp.status = 200
    /\ (pc = "done" /\ UpstreamErrorSeen =>
          /\ out # <<>>
          /\ out[Len(out)].src = "relay"
          /\ IsErrorEvent(out[Len(out)].bytes))

Unrelayed == Len(NonEmptyReceived) - Len(Relayed)

\* C20: in streaming mode with a status < 400 the relay hands each non-empty
\* chunk to the caller before it reads the next one: at most one received
\* chunk is not yet relayed, it is the one being yielded, none is held while
\* the relay reads, and a read happens only with nothing held back.
C20_NoBuffering ==
  /\ [](Streaming /\ upstatus # 0 /\ upstatus < 400 =>
          /\ Unrelayed \in {0, 1}
          /\ (Unrelayed = 1 => pending = received[Len(received)])
          /\ (pc = "relay" => Unrelayed = 0)
          /\ (pc = "yield" => Unrelayed = 1)
          /\ \A i \in 1..Len(Relayed) : Relayed[i].bytes = NonEmptyReceived[i])
  /\ [][received' # received /\ received' # <<>> => Unrelayed = 0]_vars

C20_Witness ==
  /\ Streaming /\ upstatus = 200 /\ pc = "yield"
  /\ Len(received) = 2 /\ received[1] # <<>> /\ received[2] # <<>>
  /\ Len(Relayed) = 1 /\ Relayed[1].bytes = received[1]
  /\ pending = received[2]

(* ================ properties of message precedence ==================== *)
\* the generic string of the claim C21
ClaimedGeneric(st) == JStr(<<"Upstream error (", ToString(st), ")">>)
\* the raw text of a body, trimmed; a body of nothing but whitespace is
\* taken as an empty one
ClaimedText(st, text) ==
  IF Strip(text) = <<>> THEN ClaimedGeneric(st) ELSE JStr(Strip(text))
\* the message the claim C21 gives for a status and a body: error.message
\* when the body is an object with that field, else the top-level message
\* when present, else the generic string; the trimmed text when the body is
\* not JSON (bytes that are not UTF-8 left out of it, or replaced: see
\* ClaimedMessages)
ClaimedMessage(st, body) ==
  IF body.kind = "empty" THEN ClaimedGeneric(st)
  ELSE IF body.kind = "text" THEN ClaimedText(st, DecodeIgnore(body.text))
  ELSE IF body.json.t # "obj" THEN ClaimedGeneric(st)
  ELSE IF body.json.error.t = "obj" /\ body.json.error.message.t # "absent"
    THEN body.json.error.message
  ELSE IF body.json.message.t # "absent" THEN body.json.message
  ELSE ClaimedGeneric(st)

\* the messages that fit the claim C21: the claim does not say how a body
\* that is not UTF-8 is decoded, so either decoding of it is taken
ClaimedMessages(st, body) ==
  {ClaimedMessage(st, body)} \cup
  (IF body.kind = "text" THEN {ClaimedText(st, ResponseText(body.text))} ELSE {})

\* C21: for an upstream status s >= 400 the message is error.message, else
\* the top-level message, else "Upstream error (s)", and the trimmed text of
\* a body that is not JSON; and for the same status and body the streaming
\* error event carries the message the buffered response carries.
C21_MessagePrecedence ==
  /\ (Buffered /\ pc = "done" /\ cause = "response" /\ upstatus >= 400) =>
       /\ resp.kind = "json"
       /\ resp.message \in ClaimedMessages(upstatus, raw)
       /\ StreamErrorMessage(upstatus, raw) = [raised |-> FALSE, message |-> resp.message]
  /\ (Streaming /\ pc = "done" /\ ErrorBodyRead) =>
       /\ Len(out) = 1
       /\ \E m \in ClaimedMessages(upstatus, raw) :
            /\ EventMessageText(out[1].bytes) = JsonDumps(m)
            /\ BufferedErrorMessage(upstatus, raw) = [raised |-> FALSE, message |-> m]

(* ============== properties of the buffered success path =============== *)
\* text is the body's bytes read as text: each byte as it is, a byte that is
\* not UTF-8 as the replacement character; nothing trimmed
IsRawText(text, bytes) ==
  /\ Len(text) = Len(bytes)
  /\ \A i \in 1..Len(bytes) :
       text[i] = (IF bytes[i] = BadByte THEN ReplacementChar ELSE bytes[i])

\* C22: in buffered mode an upstream response with status s < 400 comes back
\* with status s; its body is the upstream JSON value when the upstream body
\* is JSON, and {message: <raw text>} when it is not, an empty body included.
C22_BufferedSuccessPassThrough ==
  (Buffered /\ pc = "done" /\ cause = "response" /\ upstatus < 400) =>
    /\ resp.kind = "json"
    /\ resp.status = upstatus
    /\ resp.code = "" /\ resp.message = Absent
    /\ (raw.kind = "json" =>
          resp.content.kind = "json" /\ resp.content.json = raw.json)
    /\ (raw.kind # "json" =>
          resp.content.kind = "wrapped" /\ IsRawText(resp.content.text, raw.text))

C22_Witness ==
  /\ Buffered /\ pc = "done" /\ cause = "response" /\ upstatus = 204
  /\ raw = EmptyBody
  /\ resp.kind = "json" /\ resp.status = 204
  /\ resp.content.kind = "wrapped" /\ resp.content.text = <<>>

C22_WitnessText ==
  /\ Buffered /\ pc = "done" /\ cause = "response" /\ upstatus = 200
  /\ raw = TextBody(<<SP, "Bad Gateway", LF>>)
  /\ resp.status = 200 /\ resp.content.text = <<SP, "Bad Gateway", LF>>

(* ================== properties of the remote import =================== *)
\* the latest call was a remote import, and what it was asked and answered
Imported == last.op = "import"
\* a version header the check is to turn away: one that is there, is not
\* empty, and either does not parse or parses to less than 0.1.0
Unparseable(parts) ==
  \/ Len(parts) < 2
  \/ \E i \in 1..Len(parts) : i <= 3 /\ ~parts[i].num
BelowMinimum(parts) ==
  /\ ~Unparseable(parts)
  /\ TupleLess(<<parts[1].v, parts[2].v, IF Len(parts) > 2 THEN parts[3].v ELSE 0>>,
               <<0, 1, 0>>)
Rejectable(version) ==
  /\ version.present
  /\ version.parts # <<>>
  /\ Unparseable(version.parts) \/ BelowMinimum(version.parts)
\* the failure outcomes of a remote import
FailureOutcome(r) ==
  \/ Rejectable(r.version)
  \/ r.source = "file" /\ r.size > MaxUploadBytes
  \/ r.outcome \in {"CardImportError", "PydanticValidationError",
                    "JSONDecodeError", "Exception"}
  \/ r.source = "other"
ErrorCodes == {"VERSION_MISMATCH", "VALIDATION_ERROR", "INTERNAL_ERROR"}
\* the store after the call is the store before it and one entry more
AddsOneNew(k) ==
  /\ k \notin DOMAIN before
  /\ DOMAIN store = DOMAIN before \cup {k}
  /\ \A x \in DOMAIN before : store[x] = before[x]
\* the failure half and the version half of the remote import's contract
ImportFailureFrame ==
  Imported =>
    /\ last.success = ~FailureOutcome(last.request)
    /\ ~last.success => last.error_code \in ErrorCodes /\ store = before
    /\ Rejectable(last.request.version) => last.error_code = "VERSION_MISMATCH"
    /\ ~last.request.version.present => last.error_code # "VERSION_MISMATCH"
\* a successful import stores the card it was given under the id it returns
ImportStores ==
  (Imported /\ last.success) =>
    /\ last.error_code = ""
    /\ last.card_id \in DOMAIN store
    /\ store[last.card_id] = Entry(last.request.card)
    /\ \A x \in DOMAIN store \ {last.card_id} : x \in DOMAIN before /\ store[x] = before[x]

\* C24: a remote import that returns success=true adds exactly one new entry
\* to the pending store, under the returned card_id and without replacing an
\* existing entry; every failure outcome returns success=false with an
\* error_code and leaves the store unchanged; a request without a version
\* header is never rejected for version mismatch.
C24_ImportChangesStoreOnlyOnSuccess ==
  /\ ImportFailureFrame
  /\ ImportStores
  /\ (Imported /\ last.success) => AddsOneNew(last.card_id)

(* ================== properties of the pending store =================== *)
\* the latest call was a fetch of one pending card, or the pending listing
Fetched == last.op = "fetch"
ListedPending == last.op = "list"
\* a fetch answers from the store as it finds it: an id that is pending is
\* returned with its card and removed, any other id gets 404 and nothing changes
FetchConsumes ==
  Fetched =>
    IF last.asked \in DOMAIN before
      THEN /\ last.status = 200
           /\ last.card = before[last.asked].card
           /\ store = Pop(before, last.asked)
           /\ returned # <<>> /\ returned[Len(returned)] = last.asked
      ELSE /\ last.status = 404
           /\ store = before
\* the listing reports the store as it is and leaves it alone
ListingCounts ==
  ListedPending =>
    /\ last.count = Cardinality(DOMAIN store)
    /\ {c.id : c \in last.cards} = DOMAIN store
    /\ store = before
\* no id occurs twice among the ids the fetches have returned
ReturnedOnce ==
  \A i, j \in 1..Len(returned) : returned[i] = returned[j] => i = j

\* C23: each stored card id is returned by get_pending_card at most once; the
\* fetch that returns it removes it from the pending store, every later fetch
\* of the same id fails with 404, and the count of the pending listing is the
\* number of entries in the store.
C23_ConsumedAtMostOnce ==
  /\ FetchConsumes
  /\ ListingCounts
  /\ ReturnedOnce
  /\ \A i \in 1..Len(returned) : returned[i] \notin DOMAIN store

====
